---- MODULE Spec2Model ----
(***************************************************************************)
(* err-githubhook: the GithubHook plugin (githubhook.py).                  *)
(*                                                                         *)
(* The plugin's configuration is a Python dict that is shared by           *)
(* reference: self.config may be the module-level DEFAULT_CONFIG object    *)
(* itself, and a route's 'events' value may be the very list object that   *)
(* is the configuration's 'default_events'.  The model therefore keeps a   *)
(* heap of list objects (lists) and says which dict object self.config     *)
(* refers to (config).                                                     *)
(*                                                                         *)
(* Chat commands are generators run by the bot's worker threads; the       *)
(* webhook is served by the web server's thread.  Each handler is a        *)
(* process with a position (pc, rpc).  Spec serialises the handlers (one   *)
(* runs to completion before the next starts); CommandsSpec interleaves    *)
(* two commands and WebhookSpec the webhook with a command, at the         *)
(* positions where the code can be suspended.  ProviderSpec calls the      *)
(* functions of providers.py and the message functions, one at a time.     *)
(***************************************************************************)
EXTENDS Integers, Sequences, FiniteSets, TLC

VARIABLES
    DEFAULT_CONFIG,  \* the module-level dict DEFAULT_CONFIG (mutable, shared)
    stored,          \* the dict object loaded from the plugin storage
    config,          \* which dict object self.config refers to
    lists,           \* heap of the list objects that hold event kinds
    global_route,    \* the attribute self.global_route ("unset": no attribute)
    persisted,       \* what save_config last wrote to the plugin storage
    pc,              \* position of each worker thread running a chat command
    local,           \* local variables of the command each worker runs
    rpc,             \* position of the webhook handler (receive)
    req,             \* the request being handled
    todo,            \* rooms of get_routes(repo) not yet iterated over
    attempted,       \* join_and_send calls of this request, per target
    sent,            \* messages sent by this request, per target
    joinfailed,      \* rooms whose join raised RoomError in this request
    keys,            \* the keys of get_routes(repo) when the loop started
    response,        \* HTTP status of this request (0: none yet)
    error,           \* the exception that ended this request ("" if none)
    looked,          \* whether this request has looked the repo up (get_repo)
    called,          \* the message function this request called ("" if none)
    call,            \* the call of a provider's function that is under way
    result,          \* what that call returned or raised ("" if not over)
    fields           \* the names that call bound to values, for the template

cfgvars == <<DEFAULT_CONFIG, stored, config, lists, persisted>>
cmdvars == <<pc, local>>
hookvars ==
    <<rpc, req, todo, keys, attempted, sent, joinfailed, response, error,
      looked, called>>
provvars == <<call, result, fields>>
vars == <<DEFAULT_CONFIG, stored, config, lists, global_route, persisted,
          pc, local, rpc, req, todo, keys, attempted, sent, joinfailed,
          response, error, looked, called, call, result, fields>>

----------------------------------------------------------------------------
(* Constants of the program *)

None == "None"

GITHUB_EVENTS ==
    {"commit_comment", "create", "delete", "deployment", "deployment_status",
     "fork", "gollum", "issue_comment", "issues", "member", "page_build",
     "public", "pull_request_review_comment", "pull_request", "push",
     "release", "status", "team_add", "watch", "*"}

DEFAULT_EVENTS ==
    <<"commit_comment", "issue_comment", "issues",
      "pull_request_review_comment", "pull_request", "push">>

\* event kinds that have a msg_<kind> method in GithubHook
MessageFunctions ==
    {"issues", "pull_request", "pull_request_review_comment", "push",
     "status", "issue_comment", "commit_comment", "repository",
     "membership", "member", "team_add", "fork"}

\* msg_<kind> methods that read body['repository']
ReadsRepository == {"repository", "member", "team_add"}

----------------------------------------------------------------------------
(* Bounds and input sets *)

\* largest number of event kinds given to one github_route / github_defaults
MaxKinds == 2

Range(s) == {s[i] : i \in 1 .. Len(s)}

RepoList == <<"octo/widgets">>
RoomList == <<"#dev", "#ops">>
WorkerList == <<"w1", "w2">>

Repos == Range(RepoList)
\* repositories a payload may name: the configurable ones and one that is
\* never configured
PayloadRepos == Repos \cup {"octo/gears"}
Rooms == Range(RoomList)
Workers == Range(WorkerList)
\* a payload whose 'repository' has no 'full_name'
NoFullName == "NoFullName"
\* the room that github_global is given
GlobalRooms == {"#ops"}

\* event kinds a user types: a known kind, the wildcard, an unknown kind
ArgKinds == {"*", "bogus"}

\* values of the X-Github-Event header (lower-cased)
EventTypes == {"push", "status", "member", "deploy_key", "ping"}

\* shapes of a payload: every field the handler reads is there, or one of
\* them is missing
Shapes == {"ok", "missing"}

\* outcomes of the chat transport for one join_and_send
Transport == {"ok", "join_error", "send_error"}

\* shared secrets and raw request bodies given to valid_message; the two
\* bodies are the same JSON value in different bytes
Tokens == {"s3cret", "Secret"}
Bodies == {"{\"zen\":1}", "{\"zen\": 1}"}

\* algorithm names in an X-Hub-Signature header
Algorithms == {"sha1", "sha256"}

\* a header value with a byte above 127 (0xE9), which the web server hands
\* over as a non-ASCII character
NonAscii == {"<E9>"}

\* the interpreters the plugin runs on
Pythons == {"python2", "python3"}

RECURSIVE SeqsUpTo(_, _)
SeqsUpTo(S, n) ==
    IF n = 0 THEN {<<>>}
    ELSE LET shorter == SeqsUpTo(S, n - 1)
         IN  shorter \cup {Append(s, x) : s \in shorter, x \in S}

KindArgs == SeqsUpTo(ArgKinds, MaxKinds)

----------------------------------------------------------------------------
(* Python dicts and the heap of lists *)

\* a route's dict without the key 'events' ({} as set_route creates it)
NoKey == -1

NumSlots == Len(RepoList) * Len(RoomList)

ListIds == 0 .. (1 + NumSlots + Len(WorkerList))

EmptyDict == [x \in {} |-> NoKey]

\* d[k] = v
DictSet(d, k, v) == [x \in DOMAIN d \cup {k} |-> IF x = k THEN v ELSE d[x]]
\* d.pop(k)
DictPop(d, k) == [x \in DOMAIN d \ {k} |-> d[x]]

\* the dict DEFAULT_CONFIG as the module creates it; list 0 is DEFAULT_EVENTS
FreshConfig == [default_events |-> 0, repositories |-> EmptyDict]

\* get_events(repo, room): the list of the route's events; NoKey stands for
\* the None that .get returns
get_events(c, repo, room) ==
    IF repo \in DOMAIN c.repositories /\ room \in DOMAIN c.repositories[repo]
    THEN c.repositories[repo][room] ELSE NoKey

\* the references of a dict in a fixed order: default_events, then the route
\* of every (repo, room)
CfgSeq(c) ==
    [i \in 1 .. (1 + NumSlots) |->
        IF i = 1 THEN c.default_events
        ELSE get_events(c, RepoList[((i - 2) \div Len(RoomList)) + 1],
                           RoomList[((i - 2) % Len(RoomList)) + 1])]

\* the references from the roots in a fixed order: DEFAULT_EVENTS, the two
\* dicts and the 'events' local of each running command
RefSeq(dc, st, loc) ==
    <<0>> \o CfgSeq(dc) \o CfgSeq(st)
          \o [i \in 1 .. Len(WorkerList) |-> loc[WorkerList[i]].events]

\* list objects that are reachable
Live(dc, st, loc) == Range(RefSeq(dc, st, loc)) \ {NoKey}

\* List objects have no names in the program. The model names them by the
\* order in which the roots reach them, so that two heaps that differ in
\* the names only are one state.
First(seq, x) ==
    CHOOSE i \in 1 .. Len(seq) : seq[i] = x /\ \A j \in 1 .. (i - 1) : seq[j] # x

Rename(seq, x) ==
    IF x = NoKey THEN NoKey
    ELSE Cardinality({y \in Range(seq) \ {NoKey} : First(seq, y) < First(seq, x)})

RenameCfg(c, seq) ==
    [default_events |-> Rename(seq, c.default_events),
     repositories |->
        [r \in DOMAIN c.repositories |->
            [m \in DOMAIN c.repositories[r] |->
                Rename(seq, c.repositories[r][m])]]]

\* the heap under the new names, with the unreachable lists dropped
RenameHeap(heap, seq) ==
    [i \in ListIds |->
        IF \E x \in Range(seq) \ {NoKey} : Rename(seq, x) = i
        THEN heap[CHOOSE x \in Range(seq) \ {NoKey} : Rename(seq, x) = i]
        ELSE <<>>]

\* a new list object: the first name that no reachable list has
NewList(live) == CHOOSE i \in ListIds \ live : \A j \in ListIds \ live : i <= j

InitialLists == [i \in ListIds |-> IF i = 0 THEN DEFAULT_EVENTS ELSE <<>>]

\* e in l, for a Python list l
Contains(l, e) == \E i \in 1 .. Len(l) : l[i] = e

\* l.remove(e): the first occurrence of e is removed
RemoveFirst(l, e) ==
    LET i == CHOOSE k \in 1 .. Len(l) : l[k] = e /\ \A j \in 1 .. (k - 1) : l[j] # e
    IN  SubSeq(l, 1, i - 1) \o SubSeq(l, i + 1, Len(l))

----------------------------------------------------------------------------
(* Convenience methods that get, check or set configuration options, as    *)
(* functions of the dict c that self.config refers to.                     *)

\* get_repo(repo) is not None
has_repo(c, repo) == repo \in DOMAIN c.repositories

\* the keys of the repo's routes (empty for an unknown repo)
get_routes(c, repo) ==
    IF has_repo(c, repo) THEN DOMAIN c.repositories[repo] ELSE {}

has_route(c, repo, room) == room \in get_routes(c, repo)

get_defaults(c) == c.default_events

\* a clear_repo that forgets the pop
clear_repo_kept(c, repo) == c

clear_repo(c, repo) ==
    IF has_repo(c, repo)
    THEN [c EXCEPT !.repositories = DictPop(c.repositories, repo)]
    ELSE c

clear_route(c, repo, room) ==
    IF has_route(c, repo, room)
    THEN [c EXCEPT !.repositories[repo] = DictPop(c.repositories[repo], room)]
    ELSE c

set_defaults(c, defaults) == [c EXCEPT !.default_events = defaults]

\* a set_events that leaves the events of a route that has some
set_events_if_none(c, repo, room, events) ==
    IF c.repositories[repo][room] # NoKey THEN c
    ELSE [c EXCEPT !.repositories[repo][room] = events]

\* requires the route to exist (KeyError otherwise, see github_route_set)
set_events(c, repo, room, events) ==
    [c EXCEPT !.repositories[repo][room] = events]

set_route(c, repo, room) ==
    LET known == IF has_repo(c, repo) THEN c.repositories
                 ELSE DictSet(c.repositories, repo, EmptyDict)
    IN  [c EXCEPT !.repositories =
            DictSet(known, repo, DictSet(known[repo], room, NoKey))]

\* what save_config writes: a copy of the dict and of the lists it refers to
save_config(c, heap) ==
    [saved |-> TRUE, cfg |-> RenameCfg(c, CfgSeq(c)),
     lists |-> RenameHeap(heap, CfgSeq(c))]

is_global_event(event_type) ==
    event_type \in {"repository", "membership", "member", "team_add", "fork"}

----------------------------------------------------------------------------
(* State of the handlers *)

Targets == Rooms \cup {None}

IdleLocal ==
    [cmd |-> "", args |-> <<>>, repo |-> "", room |-> "", events |-> NoKey,
     had_route |-> FALSE, replies |-> <<>>, error |-> ""]

NoRequest == [valid |-> "", event_type |-> "", repo |-> "", shape |-> ""]

\* no call of a provider's function is under way
NoCall == [fn |-> ""]

\* no name is bound
NoFields == [name \in {} |-> ""]

\* the dict object self.config refers to
Cur == IF config = "DEFAULT_CONFIG" THEN DEFAULT_CONFIG ELSE stored

AllIdle == rpc = "idle" /\ \A w \in Workers : pc[w] = "idle"

\* a command may start: the worker is free and, when the handlers are
\* serialised, no other handler is running (the workers being alike, the
\* first of them takes the command then)
MayStart(w, serial) ==
    pc[w] = "idle" /\ (serial => AllIdle /\ w = WorkerList[1])

\* the dicts, the heap and the locals after a step
Install(dc, st, heap, loc) ==
    LET seq == RefSeq(dc, st, loc)
    IN  /\ DEFAULT_CONFIG' = RenameCfg(dc, seq)
        /\ stored' = RenameCfg(st, seq)
        /\ lists' = RenameHeap(heap, seq)
        /\ local' = [w \in Workers |->
                        [loc[w] EXCEPT !.events = Rename(seq, @)]]

\* self.config's dict becomes c (it is mutated in place) and is saved
Mutate(c, heap, loc) ==
    /\ IF config = "DEFAULT_CONFIG" THEN Install(c, stored, heap, loc)
       ELSE Install(DEFAULT_CONFIG, c, heap, loc)
    /\ config' = config
    /\ persisted' = save_config(c, heap)

\* no dict is touched
Keep(heap, loc) ==
    /\ Install(DEFAULT_CONFIG, stored, heap, loc)
    /\ UNCHANGED <<config, persisted>>

Init ==
    /\ DEFAULT_CONFIG = FreshConfig
    /\ stored = FreshConfig
    /\ config = "DEFAULT_CONFIG"
    /\ lists = InitialLists
    /\ global_route = "unset"
    /\ persisted = [saved |-> FALSE, cfg |-> FreshConfig,
                    lists |-> [i \in ListIds |-> <<>>]]
    /\ pc = [w \in Workers |-> "idle"]
    /\ local = [w \in Workers |-> IdleLocal]
    /\ rpc = "idle"
    /\ req = NoRequest
    /\ todo = {}
    /\ keys = {}
    /\ attempted = [t \in Targets |-> 0]
    /\ sent = [t \in Targets |-> 0]
    /\ joinfailed = {}
    /\ response = 0
    /\ error = ""
    /\ looked = FALSE
    /\ called = ""
    /\ call = NoCall
    /\ result = ""
    /\ fields = NoFields

----------------------------------------------------------------------------
(* Chat commands *)

Reply(msg, arg) == <<msg, arg>>

\* the loop of github_route over a copy of events: every unknown kind is
\* removed from events and reported
RECURSIVE FilterEvents(_, _, _)
FilterEvents(copy, events, replies) ==
    IF copy = <<>> THEN [events |-> events, replies |-> replies]
    ELSE IF Head(copy) \notin GITHUB_EVENTS
         THEN FilterEvents(Tail(copy), RemoveFirst(events, Head(copy)),
                           Append(replies, Reply("EVENT_UNKNOWN", Head(copy))))
         ELSE FilterEvents(Tail(copy), events, replies)

\* a loop of github_defaults that appends every kind it is given
CollectEvents_unfiltered(args, events, replies) ==
    [events |-> events \o args, replies |-> replies]

\* the loop of github_defaults: the known kinds are appended to a new list
RECURSIVE CollectEvents(_, _, _)
CollectEvents(args, events, replies) ==
    IF args = <<>> THEN [events |-> events, replies |-> replies]
    ELSE IF Head(args) \in GITHUB_EVENTS
         THEN CollectEvents(Tail(args), Append(events, Head(args)), replies)
         ELSE CollectEvents(Tail(args), events,
                            Append(replies, Reply("EVENT_UNKNOWN", Head(args))))

\* github_route, up to the first point where the generator can be suspended:
\* the arguments are split and the route's entry is created if there is none
github_route_begin(w, args, serial) ==
    /\ MayStart(w, serial)
    /\ UNCHANGED <<global_route, hookvars, provvars>>
    /\ IF Len(args) >= 2
       THEN LET repo == args[1]
                room == args[2]
                id == NewList(Live(DEFAULT_CONFIG, stored, local))
                heap == [lists EXCEPT ![id] = SubSeq(args, 3, Len(args))]
                loc == [local EXCEPT ![w] =
                          [IdleLocal EXCEPT !.cmd = "github_route",
                             !.args = args, !.repo = repo, !.room = room,
                             !.events = id,
                             !.had_route = has_route(Cur, repo, room)]]
            IN  /\ pc' = [pc EXCEPT ![w] = "route_filter"]
                /\ IF has_route(Cur, repo, room)
                   THEN Keep(heap, loc)
                   ELSE Mutate(set_route(Cur, repo, room), heap, loc)
       ELSE /\ pc' = [pc EXCEPT ![w] = "done"]
            /\ local' = [local EXCEPT ![w] =
                  [IdleLocal EXCEPT !.cmd = "github_route", !.args = args,
                     !.replies = <<Reply("HELP_MSG", "")>>]]
            /\ UNCHANGED cfgvars

\* a github_route that tests events after the unknown kinds are dropped and
\* so takes the defaults when no known kind is left
github_route_filter_fallback(w) ==
    /\ pc[w] = "route_filter"
    /\ UNCHANGED <<global_route, hookvars, provvars>>
    /\ pc' = [pc EXCEPT ![w] = "route_set"]
    /\ LET id == local[w].events
           f == FilterEvents(lists[id], lists[id], local[w].replies)
       IN  IF f.events # <<>>
           THEN Keep([lists EXCEPT ![id] = f.events],
                     [local EXCEPT ![w].replies = f.replies])
           ELSE Keep(lists, [local EXCEPT ![w].events = get_defaults(Cur),
                                          ![w].replies = f.replies])

\* github_route: the unknown kinds are dropped from the given events, or the
\* defaults are taken when no events were given
github_route_filter(w) ==
    /\ pc[w] = "route_filter"
    /\ UNCHANGED <<global_route, hookvars, provvars>>
    /\ pc' = [pc EXCEPT ![w] = "route_set"]
    /\ LET id == local[w].events
       IN  IF lists[id] # <<>>
           THEN LET f == FilterEvents(lists[id], lists[id], local[w].replies)
                    loc == [local EXCEPT ![w].replies = f.replies]
                IN  Keep([lists EXCEPT ![id] = f.events], loc)
           ELSE Keep(lists, [local EXCEPT ![w].events = get_defaults(Cur)])

\* github_route: set_events and the final reply; the subscript raises
\* KeyError when the route's entry is not there any more
github_route_set(w) ==
    /\ pc[w] = "route_set"
    /\ UNCHANGED <<global_route, hookvars, provvars>>
    /\ pc' = [pc EXCEPT ![w] = "done"]
    /\ LET repo == local[w].repo
           room == local[w].room
       IN  IF has_route(Cur, repo, room)
           THEN Mutate(set_events(Cur, repo, room, local[w].events), lists,
                       [local EXCEPT ![w].replies = Append(@, Reply("Done", ""))])
           ELSE Keep(lists, [local EXCEPT ![w].error = "KeyError"])

\* github_remove: with one argument the repository is removed; with two the
\* route is removed and the generator is suspended before the cascade
github_remove_begin(w, args, serial) ==
    /\ MayStart(w, serial)
    /\ UNCHANGED <<global_route, hookvars, provvars>>
    /\ LET loc(repo, room, msg) ==
              [local EXCEPT ![w] =
                 [IdleLocal EXCEPT !.cmd = "github_remove", !.args = args,
                    !.repo = repo, !.room = room,
                    !.replies = <<Reply(msg, "")>>]]
       IN  IF Len(args) = 1
           THEN /\ pc' = [pc EXCEPT ![w] = "done"]
                /\ IF has_repo(Cur, args[1])
                   THEN Mutate(clear_repo(Cur, args[1]), lists,
                               loc(args[1], "", "Removed all configuration"))
                   ELSE Keep(lists,
                             loc(args[1], "", "Removed all configuration"))
           ELSE IF Len(args) = 2
           THEN /\ pc' = [pc EXCEPT ![w] = "remove_check"]
                /\ IF has_route(Cur, args[1], args[2])
                   THEN Mutate(clear_route(Cur, args[1], args[2]), lists,
                               loc(args[1], args[2], "Removed route"))
                   ELSE Keep(lists, loc(args[1], args[2], "Removed route"))
           ELSE /\ pc' = [pc EXCEPT ![w] = "done"]
                /\ local' = loc("", "", "HELP_MSG")
                /\ UNCHANGED cfgvars

\* github_remove: if not self.get_routes(repo)
github_remove_check(w) ==
    /\ pc[w] = "remove_check"
    /\ UNCHANGED <<global_route, hookvars, provvars, cfgvars, local>>
    /\ pc' = [pc EXCEPT ![w] =
                IF get_routes(Cur, local[w].repo) = {} THEN "remove_clear"
                ELSE "done"]

\* github_remove: the cascade, self.clear_repo(repo)
github_remove_clear(w) ==
    /\ pc[w] = "remove_clear"
    /\ UNCHANGED <<global_route, hookvars, provvars>>
    /\ pc' = [pc EXCEPT ![w] = "done"]
    /\ LET loc == [local EXCEPT ![w].replies =
                      Append(@, Reply("No more routes", ""))]
       IN  IF has_repo(Cur, local[w].repo)
           THEN Mutate(clear_repo(Cur, local[w].repo), lists, loc)
           ELSE Keep(lists, loc)

\* the defaults' own list object, emptied and filled again, instead of a
\* new list
defaults_events_in_place(c, live) == c.default_events

\* github_defaults, line 206: events = [], a new list object
defaults_events(c, live) == NewList(live)

\* github_defaults: with arguments the known kinds become the defaults,
\* without arguments the defaults are shown
github_defaults(w, args, serial) ==
    /\ MayStart(w, serial)
    /\ UNCHANGED <<global_route, hookvars, provvars>>
    /\ pc' = [pc EXCEPT ![w] = "done"]
    /\ IF args # <<>>
       THEN LET f == CollectEvents(args, <<>>, <<>>)
                id == defaults_events(Cur, Live(DEFAULT_CONFIG, stored, local))
            IN  Mutate(set_defaults(Cur, id), [lists EXCEPT ![id] = f.events],
                       [local EXCEPT ![w] =
                          [IdleLocal EXCEPT !.cmd = "github_defaults",
                             !.args = args,
                             !.replies = Append(f.replies, Reply("Done", ""))]])
       ELSE /\ local' = [local EXCEPT ![w] =
                  [IdleLocal EXCEPT !.cmd = "github_defaults", !.args = args,
                     !.replies = <<Reply("Events routed by default", "")>>]]
            /\ UNCHANGED cfgvars

\* github_reset: self.config = DEFAULT_CONFIG, the module-level dict object
\* (the dict loaded from the storage is dropped), and save_config
github_reset(w, serial) ==
    /\ MayStart(w, serial)
    /\ UNCHANGED <<global_route, hookvars, provvars>>
    /\ pc' = [pc EXCEPT ![w] = "done"]
    /\ config' = "DEFAULT_CONFIG"
    /\ Install(DEFAULT_CONFIG, FreshConfig, lists,
               [local EXCEPT ![w] =
                  [IdleLocal EXCEPT !.cmd = "github_reset",
                     !.replies = <<Reply("Done", "")>>]])
    /\ persisted' = save_config(DEFAULT_CONFIG, lists)

\* github_global: one argument clears the global route, two arguments set it
\* to the second; the configuration is neither touched nor saved
github_global(w, args, serial) ==
    /\ MayStart(w, serial)
    /\ UNCHANGED <<cfgvars, hookvars, provvars>>
    /\ pc' = [pc EXCEPT ![w] = "done"]
    /\ local' = [local EXCEPT ![w] =
          [IdleLocal EXCEPT !.cmd = "github_global", !.args = args,
             !.replies = <<Reply(IF Len(args) = 1 THEN "Removed global route"
                                 ELSE IF Len(args) = 2 THEN "Set global route"
                                 ELSE "HELP_MSG", "")>>]]
    /\ global_route' = IF Len(args) = 1 THEN None
                       ELSE IF Len(args) = 2 THEN args[2]
                       ELSE global_route

\* the generator is exhausted: the worker is free again
cmd_return(w) ==
    /\ pc[w] = "done"
    /\ UNCHANGED <<global_route, hookvars, provvars>>
    /\ pc' = [pc EXCEPT ![w] = "idle"]
    /\ Keep(lists, [local EXCEPT ![w] = IdleLocal])

\* the configuration as configure() gets it from the storage: list objects
\* of its own, none of them the module's DEFAULT_EVENTS (list 0)
Loaded(p) ==
    [cfg |-> [default_events |-> p.cfg.default_events + 1,
              repositories |->
                 [r \in DOMAIN p.cfg.repositories |->
                    [m \in DOMAIN p.cfg.repositories[r] |->
                       IF p.cfg.repositories[r][m] = NoKey THEN NoKey
                       ELSE p.cfg.repositories[r][m] + 1]]],
     lists |-> [i \in ListIds |->
                   IF i = 0 THEN DEFAULT_EVENTS ELSE p.lists[i - 1]]]

\* the bot is restarted: the module is loaded anew and configure() is given
\* the stored configuration, or None when nothing was ever stored
configure ==
    /\ AllIdle
    /\ UNCHANGED <<persisted, pc, hookvars, provvars>>
    /\ global_route' = "unset"
    /\ IF persisted.saved
       THEN /\ config' = "stored"
            /\ Install(FreshConfig, Loaded(persisted).cfg,
                       Loaded(persisted).lists, local)
       ELSE /\ config' = "DEFAULT_CONFIG"
            /\ Install(FreshConfig, FreshConfig, InitialLists, local)

----------------------------------------------------------------------------
(* The webhook *)

InvalidRequests ==
    {[valid |-> v, event_type |-> "push", repo |-> None, shape |-> "ok"] :
        v \in {"content_type", "header", "json", "not_object"}}

ValidRequests ==
    {r \in [valid : {"ok"}, event_type : EventTypes,
            repo : PayloadRepos \cup {None, NoFullName}, shape : Shapes] :
        \* the shape makes no difference to msg_generic
        r.shape = "missing" => r.event_type \in MessageFunctions \cup {"ping"}}

Requests == InvalidRequests \cup ValidRequests

\* a validate_incoming without the isinstance test
validate_incoming_any_json(request) == request.valid \in {"ok", "not_object"}

validate_incoming(request) == request.valid = "ok"

\* a dispatch without msg_generic: a kind without a method gives no message
create_message_methods_only(event_type, repo, shape) ==
    IF event_type \notin MessageFunctions THEN None
    ELSE IF event_type = "status" THEN None
    ELSE IF shape = "missing" THEN "KeyError"
    ELSE IF event_type \in ReadsRepository /\ repo = None THEN "KeyError"
    ELSE "message"

\* what the message function gives: "message" (a rendered, non-empty text),
\* None, or the exception it raises
create_message(event_type, repo, shape) ==
    IF event_type \notin MessageFunctions THEN "message"      \* msg_generic
    ELSE IF event_type = "status" THEN None
    ELSE IF shape = "missing" THEN "KeyError"
    ELSE IF event_type \in ReadsRepository /\ repo = None THEN "KeyError"
    ELSE "message"

\* a route_accepts that knows no wildcard
route_accepts_kind_only(events, event_type) == Contains(events, event_type)

\* event_type in events or '*' in events
route_accepts(events, event_type) ==
    Contains(events, event_type) \/ Contains(events, "*")

\* the request is over with this status
Finish(status, exception) ==
    /\ rpc' = "done"
    /\ response' = status
    /\ error' = exception

\* join_and_send(room_name, message) with the transport's outcome o: a
\* RoomError of join is caught and the message is sent all the same; an
\* exception of send (or query_room) is not caught
join_and_send(room_name, o) ==
    /\ attempted' = [attempted EXCEPT ![room_name] = @ + 1]
    /\ sent' = IF o = "send_error" THEN sent
               ELSE [sent EXCEPT ![room_name] = @ + 1]
    /\ joinfailed' = IF o = "join_error" THEN joinfailed \cup {room_name}
                     ELSE joinfailed

\* the name of the method that receive dispatches to (without its msg_)
message_function(event_type) ==
    IF event_type \in MessageFunctions THEN event_type ELSE "generic"

\* self.get_repo(repo) is None and not global_event
discards(c, repo, event_type) ==
    ~has_repo(c, repo) /\ ~is_global_event(event_type)

\* receive is left before its loop: nothing is iterated over
Leave(lookup, function) ==
    /\ todo' = {}
    /\ keys' = {}
    /\ looked' = lookup
    /\ called' = function

\* receive, up to the loop over the routes
receive_begin(request, serial) ==
    /\ rpc = "idle"
    /\ serial => AllIdle
    /\ UNCHANGED <<cfgvars, cmdvars, provvars, global_route>>
    /\ req' = request
    /\ attempted' = [t \in Targets |-> 0]
    /\ sent' = [t \in Targets |-> 0]
    /\ joinfailed' = {}
    /\ LET event_type == request.event_type
           repo == request.repo
           message == create_message(event_type, repo, request.shape)
       IN  IF ~validate_incoming(request)
           THEN Finish(400, "HTTPError") /\ Leave(FALSE, "")
           ELSE IF event_type = "ping"
           THEN /\ Leave(FALSE, "")
                /\ IF request.shape = "missing" THEN Finish(500, "KeyError")
                   ELSE Finish(204, "")
           ELSE IF repo = NoFullName
           THEN Finish(500, "KeyError") /\ Leave(FALSE, "")
           ELSE IF discards(Cur, repo, event_type)
           THEN Finish(204, "") /\ Leave(TRUE, "")
           ELSE IF message \in {"KeyError", "TypeError"}
           THEN Finish(500, message) /\ Leave(TRUE, message_function(event_type))
           ELSE IF message = None
           THEN Finish(204, "") /\ Leave(TRUE, message_function(event_type))
           ELSE /\ todo' = get_routes(Cur, repo)
                /\ keys' = get_routes(Cur, repo)
                /\ looked' = TRUE
                /\ called' = message_function(event_type)
                /\ rpc' = IF get_routes(Cur, repo) = {} THEN "global" ELSE "loop"
                /\ response' = 0
                /\ error' = ""

\* what the iteration over the keys can do next: go on with the keys it
\* started with, or, when the dict was changed meanwhile, raise RuntimeError
\* (a keys view, Python 3; Python 2 iterates over a copy)
Iteration ==
    IF get_routes(Cur, req.repo) = keys THEN {"next"}
    ELSE {"next", "RuntimeError"}

\* one iteration of the loop over the routes of the repo
receive_loop(room_name, o) ==
    /\ rpc = "loop"
    /\ room_name \in todo
    /\ UNCHANGED <<cfgvars, cmdvars, provvars, global_route, req, keys, looked, called>>
    /\ todo' = todo \ {room_name}
    /\ \E it \in Iteration :
         LET events == get_events(Cur, req.repo, room_name)
         IN  IF it = "RuntimeError"
             THEN /\ Finish(500, "RuntimeError")
                  /\ UNCHANGED <<attempted, sent, joinfailed>>
             ELSE IF events = NoKey
             THEN /\ Finish(500, "TypeError")
                  /\ UNCHANGED <<attempted, sent, joinfailed>>
             ELSE IF route_accepts(lists[events], req.event_type)
             THEN /\ join_and_send(room_name, o)
                  /\ IF o = "send_error" THEN Finish(500, "SendError")
                     ELSE /\ rpc' = IF todo' = {} THEN "global" ELSE "loop"
                          /\ UNCHANGED <<response, error>>
             ELSE /\ rpc' = IF todo' = {} THEN "global" ELSE "loop"
                  /\ UNCHANGED <<attempted, sent, joinfailed, response, error>>

\* a receive that forgets the global route once it has delivered to it
receive_global_once(o) ==
    /\ rpc = "global"
    /\ UNCHANGED <<cfgvars, cmdvars, provvars, req, keys, todo, looked, called>>
    /\ IF ~is_global_event(req.event_type)
       THEN /\ Finish(204, "")
            /\ UNCHANGED <<attempted, sent, joinfailed, global_route>>
       ELSE IF global_route = "unset"
       THEN /\ Finish(500, "AttributeError")
            /\ UNCHANGED <<attempted, sent, joinfailed, global_route>>
       ELSE /\ join_and_send(global_route, o)
            /\ global_route' = None
            /\ IF o = "send_error" THEN Finish(500, "SendError")
               ELSE Finish(204, "")

\* after the loop: a global event goes to self.global_route as well
receive_global(o) ==
    /\ rpc = "global"
    /\ UNCHANGED <<cfgvars, cmdvars, provvars, global_route, req, keys, todo,
                 looked, called>>
    /\ IF ~is_global_event(req.event_type)
       THEN /\ Finish(204, "")
            /\ UNCHANGED <<attempted, sent, joinfailed>>
       ELSE IF global_route = "unset"
       THEN /\ Finish(500, "AttributeError")
            /\ UNCHANGED <<attempted, sent, joinfailed>>
       ELSE /\ join_and_send(global_route, o)
            /\ IF o = "send_error" THEN Finish(500, "SendError")
               ELSE Finish(204, "")

\* the response is returned; the handler is free for the next request
receive_return ==
    /\ rpc = "done"
    /\ UNCHANGED <<cfgvars, cmdvars, provvars, global_route>>
    /\ rpc' = "idle"
    /\ req' = NoRequest
    /\ todo' = {}
    /\ keys' = {}
    /\ attempted' = [t \in Targets |-> 0]
    /\ sent' = [t \in Targets |-> 0]
    /\ joinfailed' = {}
    /\ response' = 0
    /\ error' = ""
    /\ looked' = FALSE
    /\ called' = ""

----------------------------------------------------------------------------
(* providers.py: GithubHandlers.valid_message *)

\* hmac.new(token.encode(), msg=message, digestmod=hashlib.sha1).hexdigest():
\* a text that tells the digests of different (token, message) apart
hexdigest(token, message) == "hmac-sha1(" \o token \o "," \o message \o ")"

\* A header value is a sequence of pieces of text, the piece "=" being the
\* character '='.  s.split(sep): the parts of s between the separators
RECURSIVE split(_, _)
split(s, sep) ==
    IF s = <<>> THEN << <<>> >>
    ELSE LET rest == split(Tail(s), sep)
         IN  IF Head(s) = sep THEN << <<>> >> \o rest
             ELSE << <<Head(s)>> \o Head(rest) >> \o Tail(rest)

\* hmac.compare_digest(mac, sig) for two str: Python 3 raises TypeError when
\* one of them has a non-ASCII character; Python 2 compares the two byte
\* strings
compare_digest(mac, sig, python) ==
    IF python = "python3" /\ \E i \in 1 .. Len(sig) : sig[i] \in NonAscii
    THEN "TypeError"
    ELSE IF mac = sig THEN "True" ELSE "False"

\* what request.get_header gives for a header that is not there (None); no
\* header value has this piece of text
NoHeader == <<None>>

\* GithubHandlers.valid_message(request, token): "True", "False" or the
\* exception that it raises
valid_message(request, token, python) ==
    LET signature == request.signature
        parts == split(signature, "=")
    IN  IF signature = NoHeader THEN "False"
        ELSE IF Len(parts) # 2 THEN "False"          \* ValueError is caught
        ELSE IF parts[1] # <<"sha1">> THEN "False"
        ELSE compare_digest(<<hexdigest(token, request.body)>>, parts[2], python)

\* the texts after the '=' of a header: the digest of some token and body,
\* or a text that is no digest
Signatures ==
    {hexdigest(token, body) : token \in Tokens, body \in Bodies} \cup NonAscii

\* X-Hub-Signature headers: none, algorithm=signature, no '=', an empty
\* signature, two '='
SignatureHeaders ==
    {NoHeader}
        \cup {<<alg, "=", sig>> : alg \in Algorithms, sig \in Signatures}
        \cup {<<alg>> : alg \in Algorithms}
        \cup {<<alg, "=">> : alg \in Algorithms}
        \cup {<<"sha1", "=", sig, "=", sig>> : sig \in Signatures}

\* a request comes in and valid_message is called with it and the token
valid_message_call(signature, body, token) ==
    /\ call = NoCall
    /\ call' = [fn |-> "valid_message", signature |-> signature,
                body |-> body, token |-> token]
    /\ result' = ""
    /\ UNCHANGED <<cfgvars, cmdvars, hookvars, global_route, fields>>

\* valid_message runs to its end
valid_message_run(python) ==
    /\ call # NoCall /\ call.fn = "valid_message" /\ result = ""
    /\ result' = valid_message(call, call.token, python)
    /\ UNCHANGED <<cfgvars, cmdvars, hookvars, global_route, call, fields>>

\* the caller has the result
provider_return ==
    /\ call # NoCall /\ result # ""
    /\ call' = NoCall
    /\ result' = ""
    /\ fields' = NoFields
    /\ UNCHANGED <<cfgvars, cmdvars, hookvars, global_route>>

----------------------------------------------------------------------------
(* providers.py: GitLabHandlers.create_message *)

GITLAB_EVENTS ==
    {"push_hook", "tag_push_hook", "issue_hook", "note_hook",
     "merge_request_hook"}

\* the dict of map_event_type and its .get(event_type)
map_event_type(event_type) ==
    IF event_type = "push_hook" THEN "push"
    ELSE IF event_type = "issue_hook" THEN "issue"
    ELSE IF event_type = "note_hook" THEN "comment"
    ELSE None

\* the kinds x for which a GitLabHandlers object has an attribute msg_x
GitLabMessageFunctions == {"push", "issue", "comment", "generic"}

\* GitLabHandlers.msg_issue: the template it renders, or None when the
\* action is none of reopen, close, open
GitLabHandlers_msg_issue(body) ==
    IF body.action \in {"reopen", "close", "open"} THEN "issues" ELSE None

\* GitLabHandlers.msg_comment: the template for the (lower-cased) noteable
\* type, or None
GitLabHandlers_msg_comment(body) ==
    IF body.noteable_type = "issue" THEN "issue_comment"
    ELSE IF body.noteable_type = "commit" THEN "commit_comment"
    ELSE IF body.noteable_type = "mergerequest" THEN "merge_request_comment"
    ELSE None

\* CommonGitWebProvider.create_message for a GitLabHandlers object: the
\* template of the message, None, or the exception raised. A kind without
\* an attribute msg_<kind> ('msg_None' for None) goes to msg_generic;
\* msg_generic called as a method of two arguments lacks its event_type
CommonGitWebProvider_create_message(body, event_type) ==
    IF event_type \notin GitLabMessageFunctions THEN "generic"
    ELSE IF event_type = "push" THEN "push"
    ELSE IF event_type = "issue" THEN GitLabHandlers_msg_issue(body)
    ELSE IF event_type = "comment" THEN GitLabHandlers_msg_comment(body)
    ELSE "TypeError"

\* GitLabHandlers.create_message
GitLabHandlers_create_message(body, event_type) ==
    CommonGitWebProvider_create_message(body, map_event_type(event_type))

\* GitLab payloads, as far as the message functions tell them apart
GitLabBodies ==
    [action : {"open", "close", "update"},
     noteable_type : {"issue", "commit", "mergerequest", "snippet"}]

\* create_message of the GitLab provider is called with an event
GitLabHandlers_create_message_call(body, event_type) ==
    /\ call = NoCall
    /\ call' = [fn |-> "GitLabHandlers.create_message", body |-> body,
                event_type |-> event_type]
    /\ result' = ""
    /\ UNCHANGED <<cfgvars, cmdvars, hookvars, global_route, fields>>

\* it runs to its end
GitLabHandlers_create_message_run ==
    /\ call # NoCall /\ call.fn = "GitLabHandlers.create_message"
    /\ result = ""
    /\ result' = GitLabHandlers_create_message(call.body, call.event_type)
    /\ fields' = [mapped_event_type |-> map_event_type(call.event_type)]
    /\ UNCHANGED <<cfgvars, cmdvars, hookvars, global_route, call>>

----------------------------------------------------------------------------
(* The message functions of issues and pull_request, of GithubHook         *)
(* (githubhook.py) and of GithubHandlers (providers.py).  A payload is     *)
(* given by the values the functions read: body.assignee is the login of   *)
(* body['issue']['assignee'] or None, body.merged_by that of               *)
(* body['pull_request']['merged_by'].  A function gives what it raised     *)
(* ("" if nothing) and the names it hands to the template with their       *)
(* values.                                                                 *)

\* well-formed payloads of an issues event
IssuesBodies ==
    [action : {"opened", "assigned"}, number : {"7"}, title : {"Crash"},
     user : {"octocat"}, url : {"https://api/issues/7"},
     assignee : {None, "hubot"}, body : {"It crashes."}]

\* well-formed payloads of a pull_request event: merged_by is there if and
\* only if the pull request is merged, which it is only when closed
PullRequestBodies ==
    {b \in [action : {"opened", "closed", "synchronize"}, number : {"8"},
            user : {"octocat"}, html_url : {"https://pull/8"},
            merged : BOOLEAN, merged_by : {None, "monalisa"},
            body : {"Fixes the crash."}] :
        /\ b.merged => b.action = "closed"
        /\ b.merged <=> b.merged_by # None}

\* GithubHook.msg_issues: body is bound anew to body['issue']['body'], a
\* str, before body['issue']['assignee']['login'] is read from it
msg_issues(body, repo) ==
    IF body.assignee # None
    THEN [raised |-> "TypeError", fields |-> NoFields]
    ELSE [raised |-> "",
          fields |-> [action |-> body.action, number |-> body.number,
                      title |-> body.title, user |-> body.user,
                      url |-> body.url, is_assigned |-> body.assignee,
                      body |-> body.body, repo |-> repo]]

\* GithubHook.msg_pull_request: body is bound anew to
\* body['pull_request']['body'] before body['pull_request']['merged_by'] is
\* read from it
msg_pull_request(body, repo) ==
    IF body.action = "closed" /\ body.merged
    THEN [raised |-> "TypeError", fields |-> NoFields]
    ELSE [raised |-> "",
          fields |-> [action |-> IF body.action = "synchronize" THEN "updated"
                                 ELSE body.action,
                      number |-> body.number, user |-> body.user,
                      url |-> body.html_url, merged |-> body.merged,
                      body |-> body.body, repo |-> repo]]

\* GithubHandlers.msg_issues
GithubHandlers_msg_issues(body, repo) ==
    [raised |-> "",
     fields |-> [action |-> body.action, number |-> body.number,
                 title |-> body.title, user |-> body.user, url |-> body.url,
                 is_assigned |-> body.assignee, assignee |-> body.assignee,
                 repo |-> repo]]

\* GithubHandlers.msg_pull_request
GithubHandlers_msg_pull_request(body, repo) ==
    [raised |-> "",
     fields |-> [action |-> IF body.action = "closed" /\ body.merged
                            THEN "merged"
                            ELSE IF body.action = "synchronize" THEN "updated"
                            ELSE body.action,
                 user |-> IF body.action = "closed" /\ body.merged
                          THEN body.merged_by ELSE body.user,
                 number |-> body.number, url |-> body.html_url,
                 merged |-> body.merged, repo |-> repo]]

\* the classes that have the message functions
Providers == {"GithubHook", "GithubHandlers"}

\* msg_<event_type>(body, repo) of the provider
message_of(provider, event_type, body, repo) ==
    IF provider = "GithubHook"
    THEN IF event_type = "issues" THEN msg_issues(body, repo)
         ELSE msg_pull_request(body, repo)
    ELSE IF event_type = "issues" THEN GithubHandlers_msg_issues(body, repo)
         ELSE GithubHandlers_msg_pull_request(body, repo)

\* a message function is called with a payload
message_function_call(provider, event_type, body) ==
    /\ call = NoCall
    /\ call' = [fn |-> "msg", provider |-> provider,
                event_type |-> event_type, body |-> body]
    /\ result' = ""
    /\ UNCHANGED <<cfgvars, cmdvars, hookvars, global_route, fields>>

\* it runs to its end: it returns the rendered message or raises
message_function_run ==
    /\ call # NoCall /\ call.fn = "msg" /\ result = ""
    /\ LET m == message_of(call.provider, call.event_type, call.body,
                           RepoList[1])
       IN  /\ result' = IF m.raised = "" THEN "message" ELSE m.raised
           /\ fields' = m.fields
    /\ UNCHANGED <<cfgvars, cmdvars, hookvars, global_route, call>>

----------------------------------------------------------------------------
(* Specifications *)

RouteArgs ==
    {<<repo, room>> \o kinds : repo \in Repos, room \in Rooms, kinds \in KindArgs}
        \cup {<<repo>> : repo \in Repos}

RemoveArgs ==
    {<<repo>> : repo \in Repos} \cup {<<repo, room>> : repo \in Repos, room \in Rooms}
        \cup {<<>>}

GlobalArgs == {<<"route">>, <<>>} \cup {<<"route", room>> : room \in GlobalRooms}

\* the handlers run one at a time, each to its end
Next ==
    \/ \E w \in Workers, args \in RouteArgs : github_route_begin(w, args, TRUE)
    \/ \E w \in Workers : github_route_filter(w)
    \/ \E w \in Workers : github_route_set(w)
    \/ \E w \in Workers, args \in RemoveArgs : github_remove_begin(w, args, TRUE)
    \/ \E w \in Workers : github_remove_check(w)
    \/ \E w \in Workers : github_remove_clear(w)
    \/ \E w \in Workers, args \in KindArgs : github_defaults(w, args, TRUE)
    \/ \E w \in Workers : github_reset(w, TRUE)
    \/ \E w \in Workers, args \in GlobalArgs : github_global(w, args, TRUE)
    \/ \E w \in Workers : cmd_return(w)
    \/ configure
    \/ \E request \in Requests : receive_begin(request, TRUE)
    \/ \E room_name \in Rooms, o \in Transport : receive_loop(room_name, o)
    \/ \E o \in Transport : receive_global(o)
    \/ receive_return

Spec == Init /\ [][Next]_vars

\* two commands run concurrently, each in one of the bot's worker threads
\* (github_route and github_remove are not admin_only: the bot does not wait
\* for the running commands before it starts them)
CommandsNext ==
    \/ \E w \in Workers, args \in RouteArgs : github_route_begin(w, args, FALSE)
    \/ \E w \in Workers : github_route_filter(w)
    \/ \E w \in Workers : github_route_set(w)
    \/ \E w \in Workers, args \in RemoveArgs : github_remove_begin(w, args, FALSE)
    \/ \E w \in Workers : github_remove_check(w)
    \/ \E w \in Workers : github_remove_clear(w)
    \/ \E w \in Workers : cmd_return(w)

CommandsSpec == Init /\ [][CommandsNext]_vars

\* the webhook, served by the web server's thread, runs concurrently with a
\* command in a worker thread
WebhookNext ==
    \/ \E args \in RouteArgs : github_route_begin(WorkerList[1], args, FALSE)
    \/ github_route_filter(WorkerList[1])
    \/ github_route_set(WorkerList[1])
    \/ \E args \in RemoveArgs : github_remove_begin(WorkerList[1], args, FALSE)
    \/ github_remove_check(WorkerList[1])
    \/ github_remove_clear(WorkerList[1])
    \/ cmd_return(WorkerList[1])
    \/ \E request \in Requests : receive_begin(request, FALSE)
    \/ \E room_name \in Rooms, o \in Transport : receive_loop(room_name, o)
    \/ \E o \in Transport : receive_global(o)
    \/ receive_return

WebhookSpec == Init /\ [][WebhookNext]_vars

\* calls of the provider's functions, one at a time
ProviderNext ==
    \/ \E signature \in SignatureHeaders, body \in Bodies, token \in Tokens :
          valid_message_call(signature, body, token)
    \/ \E python \in Pythons : valid_message_run(python)
    \/ \E body \in GitLabBodies, event_type \in GITLAB_EVENTS :
          GitLabHandlers_create_message_call(body, event_type)
    \/ GitLabHandlers_create_message_run
    \/ \E provider \in Providers, body \in IssuesBodies :
          message_function_call(provider, "issues", body)
    \/ \E provider \in Providers, body \in PullRequestBodies :
          message_function_call(provider, "pull_request", body)
    \/ message_function_run
    \/ provider_return

ProviderSpec == Init /\ [][ProviderNext]_vars

----------------------------------------------------------------------------
(* Properties *)

\* the request got as far as a message: it was valid, not a ping, for a
\* known repo or global, and its message function gave a text
Rendered ==
    /\ req.valid = "ok"
    /\ req.event_type # "ping"
    /\ req.repo # NoFullName
    /\ has_repo(Cur, req.repo) \/ is_global_event(req.event_type)
    /\ create_message(req.event_type, req.repo, req.shape) = "message"

\* the route of (repo, room) exists and its event set has the kind or '*'
Accepts(repo, room, kind) ==
    /\ has_route(Cur, repo, room)
    /\ get_events(Cur, repo, room) # NoKey
    /\ \E i \in 1 .. Len(lists[get_events(Cur, repo, room)]) :
          lists[get_events(Cur, repo, room)][i] \in {kind, "*"}

\* C1: while one webhook event is handled, join_and_send is invoked at most
\* once for each room, also when the global route's room has a route of the
\* repo that accepts the event.
C1_AtMostOncePerRoom == \A t \in Targets : attempted[t] <= 1

\* C2: once the loop over the routes of the repo has ended, a room has got
\* the message through the routes if and only if the repo has a route to it
\* whose event set has the event kind or the wildcard '*'.
C2_RoutesDecideDelivery ==
    rpc = "global" =>
        \A room \in Rooms :
            sent[room] = IF Accepts(req.repo, room, req.event_type) THEN 1 ELSE 0

\* C2 witness: a kind that is not in GITHUB_EVENTS went to the room with a
\* wildcard route and not to the other room, whose route has no wildcard.
C2_Witness ==
    /\ rpc = "global"
    /\ req.event_type = "deploy_key"
    /\ req.event_type \notin GITHUB_EVENTS
    /\ sent["#dev"] = 1
    /\ has_route(Cur, req.repo, "#ops")
    /\ sent["#ops"] = 0

\* C3: when the request is over, every room that a route of the repo
\* resolved the event to has the message, except a room whose own send
\* failed: a failure for one room does not keep the message from the others.
C3_FailureDoesNotAbort ==
    (rpc = "done" /\ Rendered) =>
        \A room \in Rooms :
            (Accepts(req.repo, room, req.event_type)
                /\ attempted[room] = sent[room]) => sent[room] >= 1

\* C4: the webhook handler, interleaved with a configuration command, never
\* iterates over a route that has no event set and never fails because the
\* route map is half updated.
C4_NoTornRead ==
    /\ rpc = "loop" =>
          \A room \in todo : get_events(Cur, req.repo, room) # NoKey
    /\ (rpc = "done" /\ Rendered) => error \notin {"TypeError", "RuntimeError"}

\* C5: when github_route(repo, room2) and github_remove(repo, room), run
\* concurrently, have both finished, the route to room2 is there with its
\* events.
C5_NoLostUpdate ==
    \A w \in Workers, v \in Workers :
        (/\ pc[w] = "done" /\ pc[v] = "done"
         /\ local[w].cmd = "github_route" /\ Len(local[w].args) >= 2
         /\ local[v].cmd = "github_remove" /\ Len(local[v].args) = 2
         /\ local[v].repo = local[w].repo
         /\ local[v].room # local[w].room)
        => (/\ has_route(Cur, local[w].repo, local[w].room)
            /\ get_events(Cur, local[w].repo, local[w].room) # NoKey)

\* C6: when github_reset has run, the configuration has no repositories and
\* its default events are DEFAULT_EVENTS.
C6_ResetRestoresDefaults ==
    \A w \in Workers :
        (pc[w] = "done" /\ local[w].cmd = "github_reset")
        => (/\ Cur.repositories = EmptyDict
            /\ lists[Cur.default_events] = DEFAULT_EVENTS)

\* C7: between the commands, every repository of the routing table has at
\* least one route; after github_remove(repo, room) has removed the last
\* route of the repo, the repo has no entry.
C7_EveryRepoHasRoute ==
    (\A w \in Workers : pc[w] \in {"idle", "done"}) =>
        \A repo \in DOMAIN Cur.repositories : Cur.repositories[repo] # EmptyDict

\* C7 witness: github_remove(repo, room) removed the last route and, with it,
\* the repo's entry.
C7_Witness ==
    \E w \in Workers :
        /\ pc[w] = "done"
        /\ local[w].cmd = "github_remove"
        /\ Len(local[w].args) = 2
        /\ local[w].replies =
              <<Reply("Removed route", ""), Reply("No more routes", "")>>
        /\ ~has_repo(Cur, local[w].repo)

\* the event kinds of every route of the configuration
RouteEvents(c, heap) ==
    [r \in DOMAIN c.repositories |->
        [m \in DOMAIN c.repositories[r] |->
            IF c.repositories[r][m] = NoKey THEN <<"no events">>
            ELSE heap[c.repositories[r][m]]]]

\* a step that is github_defaults given new defaults
DefaultsStep ==
    \E w \in Workers :
        /\ pc[w] = "idle" /\ pc'[w] = "done"
        /\ local'[w].cmd = "github_defaults"
        /\ local'[w].args # <<>>

\* C8: a route made by github_route without kinds has the default events of
\* that moment, and a later github_defaults leaves the events of every
\* route as they are.
C8_DefaultsSnapshot ==
    /\ [](\A w \in Workers :
            (/\ pc[w] = "done" /\ local[w].cmd = "github_route"
             /\ Len(local[w].args) = 2)
            => RouteEvents(Cur, lists)[local[w].repo][local[w].room]
                  = lists[Cur.default_events])
    /\ [][DefaultsStep => RouteEvents(Cur, lists)' = RouteEvents(Cur, lists)]_vars

\* C8 witness: the defaults were changed by github_defaults while a route
\* that was made without kinds keeps the built-in default events.
C8_Witness ==
    /\ \E w \in Workers :
          /\ pc[w] = "done" /\ local[w].cmd = "github_defaults"
          /\ local[w].args # <<>>
    /\ lists[Cur.default_events] # DEFAULT_EVENTS
    /\ \E repo \in Repos, room \in Rooms :
          /\ has_route(Cur, repo, room)
          /\ RouteEvents(Cur, lists)[repo][room] = DEFAULT_EVENTS

\* the kinds given to a github_route command, and those of them that are known
GivenKinds(w) == SubSeq(local[w].args, 3, Len(local[w].args))
IsKnown(kind) == kind \in GITHUB_EVENTS
IsUnknown(kind) == kind \notin GITHUB_EVENTS

\* C9: github_route with kinds stores the known ones of them, in their
\* order, reports every unknown one and ends with its final reply; with
\* unknown kinds only, the route is there with an empty set that accepts no
\* event.
C9_UnknownKindsDropped ==
    \A w \in Workers :
        (/\ pc[w] = "done" /\ local[w].cmd = "github_route"
         /\ Len(local[w].args) > 2)
        => (/\ local[w].error = ""
            /\ has_route(Cur, local[w].repo, local[w].room)
            /\ RouteEvents(Cur, lists)[local[w].repo][local[w].room]
                  = SelectSeq(GivenKinds(w), IsKnown)
            /\ local[w].replies =
                  [i \in 1 .. Len(SelectSeq(GivenKinds(w), IsUnknown)) |->
                      Reply("EVENT_UNKNOWN", SelectSeq(GivenKinds(w), IsUnknown)[i])]
                  \o <<Reply("Done", "")>>
            /\ (SelectSeq(GivenKinds(w), IsKnown) = <<>>
                  => \A kind \in EventTypes :
                        ~Accepts(local[w].repo, local[w].room, kind)))

\* C9 witness: github_route was given unknown kinds only, while the defaults
\* are not empty: the route has an empty set.
C9_Witness ==
    \E w \in Workers :
        /\ pc[w] = "done" /\ local[w].cmd = "github_route"
        /\ GivenKinds(w) = <<"bogus", "bogus">>
        /\ lists[Cur.default_events] # <<>>
        /\ RouteEvents(Cur, lists)[local[w].repo][local[w].room] = <<>>

\* C10: with the global route set to a room, a global event that was
\* handled without a failure has put exactly one message into that room.
C10_GlobalExactlyOne ==
    (/\ rpc = "done" /\ Rendered /\ error = ""
     /\ is_global_event(req.event_type)
     /\ global_route \in Rooms)
    => sent[global_route] = 1

\* C11: with no global route (never set since the start, or cleared by
\* github_global), a global event whose deliveries through the routes of the
\* repo did not fail ends without an error and without a join_and_send for a
\* global room.
C11_NoGlobalRouteNoDelivery ==
    (/\ rpc = "done" /\ Rendered
     /\ is_global_event(req.event_type)
     /\ global_route \notin Rooms
     /\ \A room \in Rooms : attempted[room] = sent[room])
    => (attempted[None] = 0 /\ error = "")

\* the routes with their events, the default events and the global route
\* (None when there is none)
InMemory ==
    [routes |-> RouteEvents(Cur, lists),
     defaults |-> lists[Cur.default_events],
     global_route |-> IF global_route \in Rooms THEN global_route ELSE None]

\* C12: between the commands, what save_config last wrote is the
\* configuration in memory, and a restart (configure with the stored
\* configuration) gives the routes, the default events and the global route
\* that were in memory before it.
C12_RestartRestores ==
    /\ []((AllIdle /\ persisted.saved) => persisted = save_config(Cur, lists))
    /\ [][configure => InMemory' = InMemory]_vars

\* the request is over and had passed validate_incoming
ValidDone == rpc = "done" /\ req.valid = "ok"

\* nothing was attempted for any room
NoDelivery == \A t \in Targets : attempted[t] = 0 /\ sent[t] = 0

\* C13: a request of a kind that has a message function, whose payload
\* lacks a field that this function reads, ends with status 204 and without
\* an exception, and nothing is delivered.
C13_MissingFieldContained ==
    (/\ ValidDone
     /\ req.event_type \in MessageFunctions \ {"status"}
     /\ req.repo # NoFullName
     /\ \/ req.shape = "missing"
        \/ req.event_type \in ReadsRepository /\ req.repo = None)
    => (response = 204 /\ error = "" /\ NoDelivery)

\* C14: every request that passed validate_incoming ends with status 204,
\* whatever the payload is and whatever the chat transport does.
C14_ValidRequestsGet204 == ValidDone => response = 204

\* C15: a request that fails one of the tests of validate_incoming ends
\* with status 400 before anything else is done: no repo is looked up, no
\* message function is called, nothing is attempted for any room, and the
\* step leaves the configuration and the global route as they are.
C15_InvalidRejected ==
    /\ []((rpc = "done" /\ req.valid \in {"content_type", "header", "json",
                                           "not_object"})
          => (/\ response = 400 /\ ~looked /\ called = ""
              /\ NoDelivery /\ joinfailed = {}))
    /\ [][(rpc = "idle" /\ rpc' = "done" /\ req'.valid # "ok")
            => UNCHANGED <<DEFAULT_CONFIG, stored, config, lists, persisted,
                           global_route>>]_vars

\* C15 witness: a request whose body is JSON but no object was rejected
\* while the repo has a route that accepts every kind.
C15_Witness ==
    /\ rpc = "done" /\ req.valid = "not_object" /\ response = 400
    /\ \E repo \in Repos, room \in Rooms : Accepts(repo, room, req.event_type)

\* C17: an event that is not global, with no repo in its payload or with a
\* repo that has no entry in the configuration, ends with status 204 and
\* without an exception; no message function is called and nothing is
\* delivered.
C17_UnknownRepoDiscarded ==
    (/\ ValidDone
     /\ ~is_global_event(req.event_type)
     /\ \/ req.repo = None
        \/ req.repo \in PayloadRepos /\ ~has_repo(Cur, req.repo))
    => (response = 204 /\ error = "" /\ called = "" /\ NoDelivery)

\* C18: a status event, whatever its payload, ends without an exception and
\* nothing is delivered, whatever the routes are.
C18_StatusSuppressed ==
    (ValidDone /\ req.event_type = "status")
    => (response = 204 /\ error = "" /\ NoDelivery)

\* C19: a ping that passed validate_incoming ends with status 204; no repo
\* is looked up, no message function is called and nothing is delivered.
C19_PingNoLookup ==
    (ValidDone /\ req.event_type = "ping")
    => (response = 204 /\ error = "" /\ ~looked /\ called = "" /\ NoDelivery)

C16_ValidMessage ==
    (call # NoCall /\ call.fn = "valid_message" /\ result # "")
    => (/\ result \in {"True", "False"}
        /\ result = "True" <=>
              (/\ call.signature # NoHeader
               /\ call.signature =
                     <<"sha1", "=", hexdigest(call.token, call.body)>>))

\* C21: the GitLab provider maps push_hook to push, issue_hook to issue and
\* note_hook to comment and every other event name to None, and for an event
\* name that maps to None create_message gives no message.
C21_GitLabMapping ==
    (/\ call # NoCall /\ call.fn = "GitLabHandlers.create_message"
     /\ result # "")
    => (/\ fields.mapped_event_type =
              (CASE call.event_type = "push_hook" -> "push"
                 [] call.event_type = "issue_hook" -> "issue"
                 [] call.event_type = "note_hook" -> "comment"
                 [] OTHER -> None)
        /\ call.event_type \notin {"push_hook", "issue_hook", "note_hook"}
              => result = None)

\* resolve(repo, kind): the rooms whose route of the repo has the kind or '*'
Resolve(repo, kind) == {room \in Rooms : Accepts(repo, room, kind)}

\* C22: every step of receive, whatever the request is and however it
\* ends, leaves the configuration (routes, default events), what is stored
\* of it and the global route as they are, so that every (repo, kind)
\* resolves to the same rooms after the step as before it.
C22_ReceiveReadsOnly ==
    [][hookvars' # hookvars
        => (/\ UNCHANGED <<DEFAULT_CONFIG, stored, config, lists, persisted,
                           global_route>>
            /\ \A repo \in PayloadRepos, kind \in EventTypes :
                  Resolve(repo, kind)' = Resolve(repo, kind))]_vars

\* C22 witness: a global event was delivered to a room through a route and
\* to the global route, and the route and the global route are still there.
C22_Witness ==
    /\ rpc = "done" /\ error = ""
    /\ is_global_event(req.event_type)
    /\ global_route \in Rooms /\ sent[global_route] >= 1
    /\ \E room \in Rooms \ {global_route} :
          room \in Resolve(req.repo, req.event_type) /\ sent[room] = 1

\* the message function of an issues or pull_request event has run
MessageDone(event_type) ==
    /\ call # NoCall /\ call.fn = "msg" /\ call.event_type = event_type
    /\ result # ""

\* C23: for a well-formed issues or pull_request payload the message
\* function raises nothing and hands over every documented field with the
\* payload's value: for an issue the assignee when there is one, for a
\* merged pull request the action 'merged' and the login of merged_by as
\* the user.
C23_HandlersYieldFields ==
    /\ MessageDone("issues") =>
          /\ result = "message"
          /\ {"action", "number", "title", "user", "url"} \subseteq DOMAIN fields
          /\ fields.action = call.body.action
          /\ fields.user = call.body.user
          /\ call.body.assignee # None =>
                ("assignee" \in DOMAIN fields
                    /\ fields.assignee = call.body.assignee)
    /\ MessageDone("pull_request") =>
          /\ result = "message"
          /\ {"action", "user", "number", "url", "merged"}
                \subseteq DOMAIN fields
          /\ fields.merged = call.body.merged
          /\ IF call.body.action = "closed" /\ call.body.merged
             THEN fields.action = "merged"
                    /\ fields.user = call.body.merged_by
             ELSE fields.user = call.body.user

\* every kind of the list is in GITHUB_EVENTS
AllKnown(l) == \A i \in 1 .. Len(l) : l[i] \in GITHUB_EVENTS

\* C24: every event kind in the default events and in the events of any
\* route of the configuration is in GITHUB_EVENTS, whatever github_route,
\* github_defaults, github_remove and github_reset commands were given.
C24_KnownKindsOnly ==
    /\ AllKnown(lists[Cur.default_events])
    /\ \A repo \in DOMAIN Cur.repositories :
          \A room \in DOMAIN Cur.repositories[repo] :
             Cur.repositories[repo][room] # NoKey
                => AllKnown(lists[Cur.repositories[repo][room]])

\* C24 witness: github_defaults was given an unknown kind and the wildcard,
\* and a route made before it has the built-in default events.
C24_Witness ==
    /\ \E w \in Workers :
          /\ pc[w] = "done" /\ local[w].cmd = "github_defaults"
          /\ local[w].args = <<"bogus", "*">>
    /\ lists[Cur.default_events] = <<"*">>
    /\ \E repo \in Repos, room \in Rooms :
          /\ has_route(Cur, repo, room)
          /\ RouteEvents(Cur, lists)[repo][room] = DEFAULT_EVENTS

\* the events of the route of (repo, room), if there is one
RouteOf(repo, room) ==
    IF has_route(Cur, repo, room) THEN RouteEvents(Cur, lists)[repo][room]
    ELSE <<"no route">>

\* the events that github_route with these arguments is to store
ExpectedFor(args) ==
    IF Len(args) > 2 THEN SelectSeq(SubSeq(args, 3, Len(args)), IsKnown)
    ELSE lists[Cur.default_events]

\* a step of a github_route command of worker w
RouteStep(w) == local'[w].cmd = "github_route" /\ pc'[w] # pc[w]

\* C25: github_route for a pair that has a route ends with that route
\* holding the known kinds it was given (the current default events when it
\* was given none); no step of a github_route command touches the route of
\* any other pair; and when the route of the pair holds these events
\* already, the command leaves the whole routing table as it is.
C25_RouteReplaces ==
    /\ [](\A w \in Workers :
            (/\ pc[w] = "done" /\ local[w].cmd = "github_route"
             /\ Len(local[w].args) >= 2 /\ local[w].had_route)
            => (/\ local[w].error = ""
                /\ RouteOf(local[w].repo, local[w].room)
                      = ExpectedFor(local[w].args)))
    /\ [][\A w \in Workers :
            RouteStep(w) =>
              /\ \A repo \in Repos, room \in Rooms :
                    <<repo, room>> # <<local'[w].repo, local'[w].room>>
                       => RouteOf(repo, room)' = RouteOf(repo, room)
              /\ RouteOf(local'[w].repo, local'[w].room)
                      = ExpectedFor(local'[w].args)
                    => \A repo \in Repos, room \in Rooms :
                          RouteOf(repo, room)' = RouteOf(repo, room)]_vars

\* C25 witness: github_route was given '*' for a pair that had a route and
\* the route holds '*' now, while the other room's route holds the built-in
\* default events.
C25_Witness ==
    \E w \in Workers :
        /\ pc[w] = "done" /\ local[w].cmd = "github_route"
        /\ local[w].had_route
        /\ GivenKinds(w) = <<"*">>
        /\ RouteOf(local[w].repo, local[w].room) = <<"*">>
        /\ \E room \in Rooms \ {local[w].room} :
              RouteOf(local[w].repo, room) = DEFAULT_EVENTS

====
